---- MODULE Spec2Model ----
(***************************************************************************)
(* Model of tristeng/satellite-tracker: main.py (the program), and         *)
(* tracker/utils.py generate_trajectory, init_telescope, track_satellite.  *)
(*                                                                         *)
(* Units.  Angles are whole degrees.  Rates are arcseconds per second.     *)
(* Wall-clock values (now, start_time, times[], pad, period) are counted   *)
(* in clock ticks of 0.5 s, the sleep of the pre-roll poll, so one second  *)
(* is TicksPerSec ticks; step, get_duration_seconds and dt are whole       *)
(* seconds as in the source.  Arithmetic is exact (the source uses         *)
(* floats).                                                                *)
(***************************************************************************)
EXTENDS Integers, Sequences, FiniteSets, TLC

VARIABLES
    pc,               \* position of the program
    exc,              \* exception that ended the program, "none" while running
    pending,          \* exception raised inside the try block of track_satellite
    now,              \* wall clock (ticks)
    command,          \* args.command
    tracking_config,  \* TrackingConfig + TrajectoryConfig fields
    max_slew_rate,    \* config.telescope.max_slew_rate
    ephem,            \* alt.degrees / az.degrees consumed so far (raw samples)
    points, times,    \* generate_trajectory: waypoint values and times
    lalt, laz,        \* generate_trajectory: previous altitude, unwrapped azimuth
    traj,             \* the MininumTrajectory handed back to main
    hc,               \* the mount behind NexStarHandControl
    cmds,             \* commands sent to the mount (repeated slew_variable kept once)
    start_time,       \* track_satellite: T0
    current_tracking_mode,
    period,
    loop_counter,
    op_start,
    rt,
    vals,
    lazm,
    checked           \* now - start_time as read by the last loop check

genVars   == <<ephem, points, times, lalt, laz>>
trackVars == <<start_time, current_tracking_mode, period, loop_counter, op_start,
               rt, vals, lazm, checked, pending>>
vars == <<pc, exc, now, command, tracking_config, max_slew_rate, traj, hc, cmds,
          genVars, trackVars>>

----------------------------------------------------------------------------
(* Bounds of the model *)
MaxSamples == 4        \* ephemeris samples per generated trajectory (SpecGen)
MainSamples == 2       \* samples, and seconds, of a pass in the whole program
MaxDuration == 4       \* small pass durations, seconds (SpecGen)
MaxLead == 2           \* configured start: at most this many ticks after launch
MaxGotoPolls == 1      \* polls that find the pre-roll goto still in progress
MaxCallTicks == 1      \* ticks a mount call can take

(* Program constants *)
TicksPerSec == 2
FullCircle == 360
HalfCircle == 180
ArcsecPerDegree == 3600
SecondsPerDay == 86400
PollTicks == 1             \* time.sleep(0.5)
ProgressEverySec == 5
LogEverySec == 1

None == "None"    \* an unassigned name or object
Unset == 0 - 1    \* an unassigned clock value or count
NoTrajectory == [times |-> <<>>]
NoMount == [connected |-> FALSE, tracking_mode |-> None, slewing |-> FALSE,
            goto_left |-> 0]

Alts == {10, 30}
RawAz == {0, 20, 190, 210, 350}
Steps == {1, 2, SecondsPerDay, SecondsPerDay + 1}
Durations == (0..MaxDuration) \cup {SecondsPerDay, 2 * SecondsPerDay + 2}
Pads == {1, 2}
Multipliers == {1, 2}
MaxSlewRates == {72000, 720000}
Periods == {1, 2, 4}
Commands == {"execute", "dryrun", "trajectory"}
TrackingModes == {"ALT_AZ", "EQ_NORTH"}
MountAz == {10, 350}
\* results of traj.getvalues: rounded rates, and an unwrapped target azimuth
\* below 0 (a padded start) or above 360 (after a 0/360 crossing)
Evaluations == {[azm_rate |-> 0, alt_rate |-> 0, azm |-> 0 - 10],
                [azm_rate |-> 100, alt_rate |-> 100, azm |-> 370]}

----------------------------------------------------------------------------
(* Pure helpers *)
Abs(x) == IF x < 0 THEN -x ELSE x

\* len(range(start.second, start.second + get_duration_seconds, step))
NumSamples(seconds, step) == (seconds + step - 1) \div step

\* timedelta.seconds: the seconds field of a normalised timedelta, days dropped
TimedeltaSeconds(d) == d % SecondsPerDay

\* the azimuth adjustment of the sample loop
Unwrap(prev, z) ==
    IF Abs(prev - z) > HalfCircle
    THEN IF prev > z THEN z + FullCircle ELSE z - FullCircle
    ELSE z

\* abs(delta / dt * 3600) <= max_slew_rate.  delta is a numpy float64, so for
\* dt = 0 the quotient is inf or nan, and neither is <= max_slew_rate
SlewRateAlwaysOK(delta, dt, max) == TRUE
SlewRateOK(delta, dt, max) ==
    /\ dt > 0
    /\ Abs(delta) * ArcsecPerDegree <= max * dt

Last(s) == s[Len(s)]

\* Python round(num / den): halves go to the even neighbour
RoundHalfEven(num, den) ==
    LET q == num \div den
        r == num % den
    IN  IF 2 * r < den THEN q
        ELSE IF 2 * r > den THEN q + 1
        ELSE IF q % 2 = 0 THEN q ELSE q + 1

\* the command log of the mount; a repeated slew_variable is logged once
Logged(log, c) ==
    IF c = "slew_variable" /\ Len(log) > 0 /\ Last(log) = c THEN log
    ELSE Append(log, c)

----------------------------------------------------------------------------
(* generate_trajectory *)

\* lines 155-175: the sample times; traj_start = tr[0] needs one sample
GenRange ==
    /\ pc = "gt_range"
    /\ IF NumSamples(tracking_config.duration, tracking_config.step) = 0
       THEN /\ pc' = "exit"
            /\ exc' = "IndexError"
       ELSE /\ pc' = "gt_loop"
            /\ exc' = exc
    /\ UNCHANGED <<now, command, tracking_config, max_slew_rate, traj, hc, cmds,
                   genVars, trackVars>>

\* lines 176-226: one iteration of the sample loop, on the sample (a, z)
GenSample ==
    /\ pc = "gt_loop"
    /\ Len(ephem) < NumSamples(tracking_config.duration, tracking_config.step)
    /\ \E a \in Alts, z \in RawAz :
        LET first == Len(points) = 0
            zz    == IF first THEN z ELSE Unwrap(laz, z)
            dalt  == a - lalt
            daz   == zz - laz
            dt    == TimedeltaSeconds(tracking_config.step)
            ti    == Len(ephem) * tracking_config.step
        IN  /\ ephem' = Append(ephem, <<a, z>>)
            /\ IF (~first) /\ ~(SlewRateOK(dalt, dt, max_slew_rate)
                                  /\ SlewRateOK(daz, dt, max_slew_rate))
               THEN /\ pc' = "exit"
                    /\ exc' = "AssertionError"
                    /\ UNCHANGED <<points, times, lalt, laz>>
               ELSE /\ points' = Append(points, <<a, zz>>)
                    /\ times' = Append(times, ti * TicksPerSec)
                    /\ lalt' = a
                    /\ laz' = zz
                    /\ UNCHANGED <<pc, exc>>
    /\ UNCHANGED <<now, command, tracking_config, max_slew_rate, traj, hc, cmds,
                   trackVars>>

\* lines 231-249: the two padding points; points[1] needs two samples
PadPoints(p, m) ==
    LET start_alt_delta == (p[2][1] - p[1][1]) * m
        start_az_delta  == (p[2][2] - p[1][2]) * m
        q == <<<<p[1][1] - start_alt_delta, p[1][2] - start_az_delta>>>> \o p
        n == Len(q)
        end_alt_delta == (q[n][1] - q[n - 1][1]) * m
        end_az_delta  == (q[n][2] - q[n - 1][2]) * m
    IN  Append(q, <<q[n][1] + end_alt_delta, q[n][2] + end_az_delta>>)

PadTimes(t, pad) == <<t[1] - pad>> \o t \o <<Last(t) + pad>>

GenPad ==
    /\ pc = "gt_loop"
    /\ Len(ephem) = NumSamples(tracking_config.duration, tracking_config.step)
    /\ IF Len(points) < 2
       THEN /\ pc' = "exit"
            /\ exc' = "IndexError"
            /\ UNCHANGED <<points, times>>
       ELSE /\ pc' = "gt_synth"
            /\ exc' = exc
            /\ points' = PadPoints(points, tracking_config.offset_multiplier)
            /\ times' = PadTimes(times, tracking_config.pad)
    /\ UNCHANGED <<now, command, tracking_config, max_slew_rate, traj, hc, cmds,
                   ephem, lalt, laz, trackVars>>

\* lines 253-255, 304: traj.generate(points, times); the locals end with the call
GenReturn ==
    /\ pc = "gt_synth"
    /\ traj' = [times |-> times]
    /\ pc' = "main_traj"
    /\ ephem' = <<>>
    /\ points' = <<>>
    /\ times' = <<>>
    /\ lalt' = None
    /\ laz' = None
    /\ UNCHANGED <<exc, now, command, tracking_config, max_slew_rate, hc, cmds,
                   trackVars>>

NextGen == GenRange \/ GenSample \/ GenPad \/ GenReturn

----------------------------------------------------------------------------
(* main.py *)

\* lines 103-114: execute is refused when the start has passed
MainStart ==
    /\ pc = "main"
    /\ IF command = "execute" /\ tracking_config.start - now < 0
       THEN /\ pc' = "exit"
            /\ exc' = "SystemExit"
       ELSE /\ pc' = "gt_range"
            /\ exc' = exc
    /\ UNCHANGED <<now, command, tracking_config, max_slew_rate, traj, hc, cmds,
                   genVars, trackVars>>

\* lines 135-137: the command trajectory ends here with exit(0)
MainTrajectory ==
    /\ pc = "main_traj"
    /\ pc' = IF command = "trajectory" THEN "exit" ELSE "init_telescope"
    /\ UNCHANGED <<exc, now, command, tracking_config, max_slew_rate, traj, hc,
                   cmds, genVars, trackVars>>

\* utils.py init_telescope, called at main.py line 140
InitTelescope ==
    /\ pc = "init_telescope"
    /\ \/ /\ cmds' = Logged(cmds, "connect")
          /\ pc' = "exit"
          /\ exc' = "RuntimeError"
          /\ hc' = hc
       \/ \E set_location \in BOOLEAN, set_time \in BOOLEAN, m \in TrackingModes :
          /\ cmds' = Logged(cmds, "connect")
                        \o (IF set_location THEN <<"set_location">> ELSE <<>>)
                        \o (IF set_time THEN <<"set_time">> ELSE <<>>)
          /\ hc' = [connected |-> TRUE, tracking_mode |-> m, slewing |-> FALSE,
                   goto_left |-> 0]
          /\ pc' = "ts_goto"
          /\ exc' = exc
    /\ UNCHANGED <<now, command, tracking_config, max_slew_rate, traj,
                   genVars, trackVars>>

----------------------------------------------------------------------------
(* track_satellite.  The mount answers every call outside the try block;    *)
(* inside it a call, the trajectory evaluation or the sleep may raise.      *)

is_dryrun == command = "dryrun"

\* lines 323-327: goto the first trajectory point; the mount needs some polls
TSGoto ==
    /\ pc = "ts_goto"
    /\ \E n \in 0..MaxGotoPolls : hc' = [hc EXCEPT !.goto_left = n]
    /\ cmds' = Logged(cmds, "goto")
    /\ pc' = "ts_poll"
    /\ UNCHANGED <<exc, now, command, tracking_config, max_slew_rate, traj,
                   genVars, trackVars>>

\* lines 328-331: while hc.is_goto_in_progress(): time.sleep(0.5)
TSPoll ==
    /\ pc = "ts_poll"
    /\ IF hc.goto_left > 0
       THEN /\ hc' = [hc EXCEPT !.goto_left = @ - 1]
            /\ now' = now + PollTicks
            /\ pc' = pc
       ELSE /\ pc' = "ts_wait"
            /\ UNCHANGED <<hc, now>>
    /\ UNCHANGED <<exc, command, tracking_config, max_slew_rate, traj, cmds,
                   genVars, trackVars>>

\* lines 333-351: scheduled mode sleeps until start - pad; time.sleep raises
\* ValueError on a negative length
WaitDelta(start, t, pad) == (start - t) - pad

TSWait ==
    /\ pc = "ts_wait"
    /\ LET delta == WaitDelta(tracking_config.start, now, tracking_config.pad)
       IN  IF is_dryrun
           THEN /\ pc' = "ts_handoff"
                /\ UNCHANGED <<now, exc>>
           ELSE IF delta < 0
           THEN /\ pc' = "exit"
                /\ exc' = "ValueError"
                /\ now' = now
           ELSE /\ now' = now + delta
                /\ pc' = "ts_handoff"
                /\ exc' = exc
    /\ UNCHANGED <<command, tracking_config, max_slew_rate, traj, hc, cmds,
                   genVars, trackVars>>

\* lines 353-361: stamp T0, stash the tracking mode, switch it off
TSHandoff ==
    /\ pc = "ts_handoff"
    /\ start_time' = now
    /\ current_tracking_mode' = hc.tracking_mode
    /\ hc' = [hc EXCEPT !.tracking_mode = "OFF"]
    /\ cmds' = Logged(cmds, "set_tracking_mode(OFF)")
    /\ pc' = "ts_period"
    /\ UNCHANGED <<exc, now, command, tracking_config, max_slew_rate, traj,
                   genVars, period, loop_counter, op_start, rt, vals, lazm,
                   checked, pending>>

\* lines 364-365, before the try: period = tracking_config.tracking_period.
\* TrackingConfig (model.py 66-80) declares no tracking_period, so for its
\* instances the read raises AttributeError; a configuration object that
\* carries the attribute yields its period.
TSPeriod ==
    /\ pc = "ts_period"
    /\ \/ /\ pc' = "exit"
          /\ exc' = "AttributeError"
          /\ period' = period
       \/ /\ \E p \in Periods : period' = p
          /\ pc' = "ts_setup"
          /\ exc' = exc
    /\ UNCHANGED <<now, command, tracking_config, max_slew_rate, traj, hc, cmds,
                   genVars, start_time, current_tracking_mode, loop_counter,
                   op_start, rt, vals, lazm, checked, pending>>

\* line 369
duration == tracking_config.duration * TicksPerSec + 2 * tracking_config.pad
\* line 372
padded_start_time == start_time + tracking_config.pad
\* line 377
num_loops_for_progress == RoundHalfEven(ProgressEverySec * TicksPerSec, period)
\* line 381
num_loops_for_log == RoundHalfEven(LogEverySec * TicksPerSec, period)

\* an exception inside the try block: control goes to the finally block
Raise(e) ==
    /\ pending' = e
    /\ pc' = "ts_finally"

\* lines 366-381: the head of the try block
TSSetup ==
    /\ pc = "ts_setup"
    /\ \/ /\ Raise("MountError")
          /\ UNCHANGED <<lazm, loop_counter>>
       \/ /\ \E azm \in MountAz : lazm' = azm
          /\ loop_counter' = 0
          /\ pc' = "ts_check"
          /\ pending' = pending
    /\ UNCHANGED <<exc, now, command, tracking_config, max_slew_rate, traj, hc,
                   cmds, genVars, start_time, current_tracking_mode, period,
                   op_start, rt, vals, checked>>

\* lines 383-387: the loop check, then the start of a tick
RelativeTimeCounted(t) == loop_counter * period - tracking_config.pad
RelativeTime(t) == t - padded_start_time
LoopContinues(elapsed) == elapsed < duration

TSCheck ==
    /\ pc = "ts_check"
    /\ checked' = now - start_time
    /\ IF LoopContinues(now - start_time)
       THEN /\ op_start' = now
            /\ rt' = RelativeTime(now)
            /\ pc' = "ts_eval"
       ELSE /\ pc' = "ts_finally"
            /\ UNCHANGED <<op_start, rt>>
    /\ UNCHANGED <<exc, now, command, tracking_config, max_slew_rate, traj, hc,
                   cmds, genVars, start_time, current_tracking_mode, period,
                   loop_counter, vals, lazm, pending>>

\* lines 389-393: vals = traj.getvalues(rt), the rates rounded to arcsec/s;
\* vals[1][0], the target azimuth, is kept for the error sample
TSEval ==
    /\ pc = "ts_eval"
    /\ \/ /\ Raise("TrajectoryError")
          /\ vals' = vals
       \/ /\ \E v \in Evaluations : vals' = v
          /\ pc' = "ts_slew"
          /\ pending' = pending
    /\ UNCHANGED <<exc, now, command, tracking_config, max_slew_rate, traj, hc,
                   cmds, genVars, start_time, current_tracking_mode, period,
                   loop_counter, op_start, rt, lazm, checked>>

\* line 396: hc.slew_variable(azm_rate, alt_rate)
TSSlew ==
    /\ pc = "ts_slew"
    /\ \/ /\ Raise("MountError")
          /\ UNCHANGED <<hc, cmds, now>>
       \/ /\ hc' = [hc EXCEPT !.slewing = TRUE]
          /\ cmds' = Logged(cmds, "slew_variable")
          /\ \E d \in 0..MaxCallTicks : now' = now + d
          /\ pc' = "ts_error"
          /\ pending' = pending
    /\ UNCHANGED <<exc, command, tracking_config, max_slew_rate, traj,
                   genVars, start_time, current_tracking_mode, period,
                   loop_counter, op_start, rt, vals, lazm, checked>>

\* lines 398-411: every num_loops_for_log ticks read the mount position
TSError ==
    /\ pc = "ts_error"
    /\ IF num_loops_for_log = 0
       THEN /\ Raise("ZeroDivisionError")
            /\ UNCHANGED <<lazm, now>>
       ELSE IF loop_counter % num_loops_for_log = 0
       THEN \/ /\ Raise("MountError")
               /\ UNCHANGED <<lazm, now>>
            \/ /\ \E azm \in MountAz : lazm' = Unwrap(lazm, azm)
               /\ \E d \in 0..MaxCallTicks : now' = now + d
               /\ pc' = "ts_progress"
               /\ pending' = pending
       ELSE /\ pc' = "ts_progress"
            /\ UNCHANGED <<lazm, now, pending>>
    /\ UNCHANGED <<exc, command, tracking_config, max_slew_rate, traj, hc, cmds,
                   genVars, start_time, current_tracking_mode, period,
                   loop_counter, op_start, rt, vals, checked>>

\* lines 413-415: every num_loops_for_progress ticks log the progress
TSProgress ==
    /\ pc = "ts_progress"
    /\ IF num_loops_for_progress = 0
       THEN Raise("ZeroDivisionError")
       ELSE /\ pc' = "ts_sleep"
            /\ pending' = pending
    /\ UNCHANGED <<exc, now, command, tracking_config, max_slew_rate, traj, hc,
                   cmds, genVars, start_time, current_tracking_mode, period,
                   loop_counter, op_start, rt, vals, lazm, checked>>

\* lines 417-428: an overrun logs a warning; else sleep what is left of the
\* period; then count the tick
TSSleep ==
    /\ pc = "ts_sleep"
    /\ LET op_duration == now - op_start
       IN  \/ /\ op_duration < period
              /\ Raise("KeyboardInterrupt")
              /\ UNCHANGED <<now, loop_counter>>
           \/ /\ op_duration > period
              /\ pc' = "ts_warning"
              /\ UNCHANGED <<now, loop_counter, pending>>
           \/ /\ op_duration <= period
              /\ now' = IF op_duration < period
                        THEN now + (period - op_duration) ELSE now
              /\ loop_counter' = loop_counter + 1
              /\ pc' = "ts_check"
              /\ pending' = pending
    /\ UNCHANGED <<exc, command, tracking_config, max_slew_rate, traj, hc, cmds,
                   genVars, start_time, current_tracking_mode, period,
                   op_start, rt, vals, lazm, checked>>

\* lines 421-428 after an overrun: the warning is logged, no sleep, the tick
\* is counted
TSWarning ==
    /\ pc = "ts_warning"
    /\ loop_counter' = loop_counter + 1
    /\ pc' = "ts_check"
    /\ UNCHANGED <<exc, now, command, tracking_config, max_slew_rate, traj, hc,
                   cmds, genVars, start_time, current_tracking_mode, period,
                   op_start, rt, vals, lazm, checked, pending>>

\* lines 429-432: finally: hc.slew_stop()
TSFinallyStopSkipped ==
    /\ pc = "ts_finally"
    /\ pc' = "ts_restore"
    /\ UNCHANGED <<hc, cmds, exc, now, command, tracking_config, max_slew_rate,
                   traj, genVars, trackVars>>
TSFinallyStop ==
    /\ pc = "ts_finally"
    /\ hc' = [hc EXCEPT !.slewing = FALSE]
    /\ cmds' = Logged(cmds, "slew_stop")
    /\ pc' = "ts_restore"
    /\ UNCHANGED <<exc, now, command, tracking_config, max_slew_rate, traj,
                   genVars, trackVars>>

\* line 433: hc.set_tracking_mode(current_tracking_mode); then the exception,
\* if any, propagates, else the function returns after the plot
TSFinallyRestore ==
    /\ pc = "ts_restore"
    /\ hc' = [hc EXCEPT !.tracking_mode = current_tracking_mode]
    /\ cmds' = Logged(cmds, "set_tracking_mode(restore)")
    /\ pc' = "exit"
    /\ exc' = pending
    /\ UNCHANGED <<now, command, tracking_config, max_slew_rate, traj,
                   genVars, trackVars>>

NextTrack ==
    \/ TSGoto \/ TSPoll \/ TSWait \/ TSHandoff \/ TSPeriod \/ TSSetup
    \/ TSCheck \/ TSEval \/ TSSlew \/ TSError \/ TSProgress \/ TSSleep
    \/ TSWarning
    \/ TSFinallyStop \/ TSFinallyRestore

Next == MainStart \/ NextGen \/ MainTrajectory \/ InitTelescope \/ NextTrack

----------------------------------------------------------------------------
TrackInit ==
    /\ start_time = Unset
    /\ current_tracking_mode = None
    /\ period = Unset
    /\ loop_counter = 0
    /\ op_start = Unset
    /\ rt = Unset
    /\ vals = None
    /\ lazm = Unset
    /\ checked = Unset
    /\ pending = "none"

GenInit ==
    /\ ephem = <<>>
    /\ points = <<>>
    /\ times = <<>>
    /\ lalt = None
    /\ laz = None

ConfigOf(start, seconds, step, pad, m) ==
    [start |-> start, duration |-> seconds, step |-> step, pad |-> pad,
     offset_multiplier |-> m]

\* generate_trajectory on its own: main.py with the command "trajectory"
InitGen ==
    /\ pc = "gt_range"
    /\ exc = "none"
    /\ now = 0
    /\ command = "trajectory"
    /\ \E d \in Durations, step \in Steps, pad \in Pads, m \in Multipliers :
        /\ NumSamples(d, step) <= MaxSamples
        /\ tracking_config = ConfigOf(0, d, step, pad, m)
    /\ max_slew_rate \in MaxSlewRates
    /\ traj = NoTrajectory
    /\ hc = NoMount
    /\ cmds = <<>>
    /\ GenInit
    /\ TrackInit

SpecGen == InitGen /\ [][NextGen]_vars

\* the whole program, from the loaded configuration on
Init ==
    /\ pc = "main"
    /\ exc = "none"
    /\ now = 0
    /\ command \in Commands
    /\ \E start \in (-1)..MaxLead, d \in 0..MainSamples, step \in Steps,
          pad \in Pads :
        /\ NumSamples(d, step) <= MainSamples
        /\ tracking_config = ConfigOf(start, d, step, pad, 1)
    /\ max_slew_rate = 72000
    /\ traj = NoTrajectory
    /\ hc = NoMount
    /\ cmds = <<>>
    /\ GenInit
    /\ TrackInit

Spec == Init /\ [][Next]_vars
----------------------------------------------------------------------------
(* Properties of generate_trajectory *)

AzOf(p) == [i \in 1..Len(p) |-> p[i][2]]

\* the unwrap step applied to a whole series, left to right
RECURSIVE ReUnwrap(_)
ReUnwrap(s) ==
    IF Len(s) <= 1 THEN s
    ELSE LET head == ReUnwrap(SubSeq(s, 1, Len(s) - 1))
         IN  Append(head, Unwrap(Last(head), Last(s)))

\* the signed step from raw azimuth z1 to raw azimuth z2, within half a circle
ShortestStep(z1, z2) ==
    LET m == (z2 - z1) % FullCircle
    IN  IF m > HalfCircle THEN m - FullCircle ELSE m

\* the rate implied by two waypoints dticks apart is above max
RateAbove(delta, dticks, max) ==
    LET scaled == Abs(delta) * ArcsecPerDegree * TicksPerSec
    IN  \/ scaled \div dticks > max
        \/ scaled \div dticks = max /\ scaled % dticks > 0

\* C4: while samples are consumed, every consecutive pair of unwrapped azimuths
\* differs by at most 180 degrees, each unwrapped azimuth is congruent to its
\* raw sample modulo 360, and each altitude is the raw altitude.
C4_UnwrapContinuous ==
    pc = "gt_loop" =>
        \A i \in 1..Len(points) :
            /\ points[i][1] = ephem[i][1]
            /\ (points[i][2] - ephem[i][2]) % FullCircle = 0
            /\ i > 1 => Abs(points[i][2] - points[i - 1][2]) <= HalfCircle

\* C5: unwrapping the unwrapped azimuth series again changes no value.
C5_UnwrapIdempotent ==
    pc = "gt_loop" => ReUnwrap(AzOf(points)) = AzOf(points)

\* C6: in the series handed to the synthesizer every consecutive pair, the two
\* padding pairs included, implies a rate of at most max_slew_rate on both axes.
C6_SeriesWithinSlewRate ==
    pc = "gt_synth" =>
        \A i \in 1..(Len(points) - 1), axis \in {1, 2} :
            ~RateAbove(points[i + 1][axis] - points[i][axis],
                       times[i + 1] - times[i], max_slew_rate)

RateCheckFailed == pc = "exit" /\ exc = "AssertionError"

\* C7: every accepted configuration whose samples pass the rate check hands the
\* synthesizer a series of n+2 >= 4 points with strictly increasing times and
\* one time per point, n the number of ephemeris samples.
C7_PaddedSeriesInvariant ==
    ((pc \in {"gt_synth", "exit"}) /\ ~RateCheckFailed /\ command = "trajectory") =>
        /\ pc = "gt_synth"
        /\ Len(points) =
             NumSamples(tracking_config.duration, tracking_config.step) + 2
        /\ Len(points) >= 4
        /\ Len(times) = Len(points)
        /\ \A i \in 1..(Len(times) - 1) : times[i] < times[i + 1]

\* some consecutive pair of the raw samples consumed so far implies a rate above
\* max_slew_rate, dt being the time between the two samples
InfeasiblePairSeen ==
    \E i \in 1..(Len(ephem) - 1) :
        \/ RateAbove(ephem[i + 1][1] - ephem[i][1],
                     tracking_config.step * TicksPerSec, max_slew_rate)
        \/ RateAbove(ShortestStep(ephem[i][2], ephem[i + 1][2]),
                     tracking_config.step * TicksPerSec, max_slew_rate)

\* C8: the rate check fails exactly when some consecutive sample pair implies a
\* rate above max_slew_rate (a rate equal to it is accepted, a pair that only
\* crosses 0/360 with a small step is not rejected).
C8_RateCheckExact ==
    (pc \in {"gt_loop", "gt_synth", "exit"} /\ exc # "IndexError") =>
        (RateCheckFailed <=> InfeasiblePairSeen)
----------------------------------------------------------------------------
(* Properties of the whole program *)

Count(log, c) == Cardinality({i \in DOMAIN log : log[i] = c})
Sent(c) == Count(cmds, c) > 0

\* the try block of track_satellite was entered (period is read just before it)
InTry == period # Unset

\* C1: slew_stop and set_tracking_mode(stashed mode) are never sent twice, and
\* when track_satellite ends after entering its try block, by completion or by
\* a failure raised in the block, each was sent exactly once, slew_stop first,
\* both after the last slew_variable, and the mount holds the stashed mode.
C1_GuaranteedCleanup ==
    /\ Count(cmds, "slew_stop") <= 1
    /\ Count(cmds, "set_tracking_mode(restore)") <= 1
    /\ (pc = "exit" /\ InTry) =>
        /\ Count(cmds, "slew_stop") = 1
        /\ Count(cmds, "set_tracking_mode(restore)") = 1
        /\ SubSeq(cmds, Len(cmds) - 1, Len(cmds))
             = <<"slew_stop", "set_tracking_mode(restore)">>
        /\ ~hc.slewing
        /\ hc.tracking_mode = current_tracking_mode

\* a mount call failed in a later tick, after rate commands, and the program ended
C1_Witness ==
    /\ pc = "exit"
    /\ exc = "MountError"
    /\ loop_counter > 0
    /\ Sent("slew_variable")
    /\ Count(cmds, "slew_stop") = 1
    /\ Count(cmds, "set_tracking_mode(restore)") = 1

\* C2: whenever the program ends after set_tracking_mode(OFF) was sent,
\* slew_stop and set_tracking_mode(stashed mode) were sent and the mount is not
\* left with tracking off.
C2_SafeIdleOnAnyExit ==
    (pc = "exit" /\ Sent("set_tracking_mode(OFF)")) =>
        /\ Sent("slew_stop")
        /\ Sent("set_tracking_mode(restore)")
        /\ hc.tracking_mode = current_tracking_mode

BeforeTracking ==
    {"main", "gt_range", "gt_loop", "gt_synth", "main_traj", "init_telescope",
     "ts_goto", "ts_poll", "ts_wait", "ts_handoff"}

\* C9: no tracking-mode change and no rate command before the goto was reported
\* complete and, in scheduled mode, the clock reached start - pad; once the goto
\* was sent and the pre-roll is over tracking has begun, in scheduled mode at
\* start - pad, in dry-run mode without waiting for the start.
C9_StartOfTracking ==
    /\ (Sent("set_tracking_mode(OFF)") \/ Sent("slew_variable")) =>
        /\ hc.goto_left = 0
        /\ start_time # Unset
        /\ is_dryrun \/ start_time >= tracking_config.start - tracking_config.pad
    /\ (Sent("goto") /\ pc \notin BeforeTracking) =>
        /\ start_time # Unset
        /\ Sent("set_tracking_mode(OFF)")
        /\ is_dryrun \/ start_time = tracking_config.start - tracking_config.pad
        /\ is_dryrun => start_time <= MaxGotoPolls * PollTicks

InTick == {"ts_eval", "ts_slew", "ts_error", "ts_progress", "ts_sleep",
           "ts_warning"}
InjectedFaults == {"MountError", "TrajectoryError", "KeyboardInterrupt"}

\* C10: a tick is begun only when the loop check read now - T0 < duration, and
\* unless a mount call, the evaluation or the sleep failed, the loop is left
\* only at a check that read now - T0 >= duration.
C10_TimeBasedTermination ==
    /\ pc \in InTick => checked < duration
    /\ (pc \in {"ts_finally", "ts_restore", "exit"} /\ checked # Unset
            /\ pending \notin InjectedFaults) =>
        /\ pending = "none"
        /\ checked >= duration

\* C11: in every tick of the tracking loop the relative time handed to the
\* trajectory lies in the domain [times[0], times[-1]] of the padded series
\* built by generate_trajectory from the same configuration.
C11_EvaluationInDomain ==
    pc \in InTick =>
        /\ traj.times[1] <= rt
        /\ rt <= Last(traj.times)

\* C12: every tick begins by reading the wall clock and takes as relative time
\* that reading minus (T0 + pad), whatever the tick counter and the earlier
\* overruns; a tick whose work took longer than the period logs the warning,
\* does not sleep, raises nothing and is followed by the next loop check; the
\* warning is logged on an overrun only.
C12_DriftFreeTiming ==
    [][/\ (pc = "ts_check" /\ pc' = "ts_eval") =>
            /\ op_start' = now
            /\ rt' = now - (start_time + tracking_config.pad)
       /\ pc' \in InTick => rt' = op_start' - (start_time' + tracking_config.pad)
       /\ (pc = "ts_sleep" /\ now - op_start > period) =>
            /\ pc' = "ts_warning"
            /\ now' = now
            /\ pending' = pending
       /\ pc' = "ts_warning" => (pc = "ts_sleep" /\ now - op_start > period)
       /\ pc = "ts_warning" =>
            /\ pc' = "ts_check"
            /\ now' = now
            /\ loop_counter' = loop_counter + 1
            /\ pending' = "none"
            /\ exc' = "none"]_vars

\* a tick begun after an earlier tick overran: the clock is ahead of the count
C12_Witness ==
    /\ pc = "ts_eval"
    /\ loop_counter > 0
    /\ rt > loop_counter * period - tracking_config.pad

\* an error sample has just been appended to pos_error
ErrorSampled ==
    /\ pc = "ts_progress"
    /\ loop_counter % num_loops_for_log = 0

\* line 410: the azimuth error of that sample, azm being the lazm of line 411
AzimuthError == vals.azm - lazm

\* C13: when an error sample is taken and the azimuth the mount reported is
\* congruent modulo 360 to the unwrapped target azimuth of the tick, the
\* recorded azimuth error is 0.
C13_AzimuthErrorSigned ==
    (ErrorSampled /\ (vals.azm - lazm) % FullCircle = 0) => AzimuthError = 0
====
